---- MODULE Spec2Model ----
(***************************************************************************)
(* Model of the frame-timestamp / GPS-track correlator (code/main.py).     *)
(*                                                                         *)
(* Python values are modelled as follows.                                  *)
(*   - None is the record [tag |-> "None"]; a list is                      *)
(*     [tag |-> "list", items |-> <<...>>]; a dict is                      *)
(*     [tag |-> "dict", d |-> f] with f a function from its keys.          *)
(*   - A call either returns or raises: Return(v) / Raise(exc).            *)
(*   - Python integers are unbounded; the inputs are chosen so that every  *)
(*     value the code computes fits TLC's 32-bit integers.                 *)
(*   - Latitudes and longitudes (Python floats) are whole degrees; the     *)
(*     float returned by datetime.timestamp() is the exact rational        *)
(*     sec + micro / 1e6 (no float64 rounding), and a mean sum/len is the  *)
(*     exact fraction <<sum, len>>.                                        *)
(*   - A text line is a sequence of tokens: "%", the whitespace            *)
(*     characters " " and "\n", and whole words.                           *)
(***************************************************************************)
EXTENDS Integers, Sequences, FiniteSets, TLC

----------------------------------------------------------------------------
(* Python values and call outcomes *)

None == [tag |-> "None"]

PyList(s) == [tag |-> "list", items |-> s]

PyDict(f) == [tag |-> "dict", d |-> f]

Return(v) == [kind |-> "return", v |-> v]

Raise(e) == [kind |-> "raise", exc |-> e]

Abs(n) == IF n < 0 THEN -n ELSE n

----------------------------------------------------------------------------
(* Time Normalizer: date_str_to_timestamp *)

NanosPerSecond == 1000000000

NanosPerMicro == 1000

MicrosPerSecond == 1000000

\* dt.timestamp(): seconds since the epoch as a float that INCLUDES the
\* fractional (microsecond) part; kept exact, in units of 1e-6 s.
TimestampMicros(dt) == dt.sec * MicrosPerSecond + dt.micro

\* int(timestamp_seconds * 1e9): nanoseconds of the float above.
IntNanos(dt) == TimestampMicros(dt) * (NanosPerSecond \div MicrosPerSecond)

date_str_to_timestamp(dt) == IntNanos(dt) + dt.micro * NanosPerMicro

----------------------------------------------------------------------------
(* Text primitives used by the Position Track Parser *)

IsSpace(t) == t \in {" ", "\n"}

\* str.startswith
startswith(line, prefix) ==
    /\ Len(line) >= Len(prefix)
    /\ SubSeq(line, 1, Len(prefix)) = prefix

RECURSIVE lstrip(_)
lstrip(line) ==
    IF line = <<>> \/ ~IsSpace(Head(line)) THEN line ELSE lstrip(Tail(line))

RECURSIVE rstrip(_)
rstrip(line) ==
    IF line = <<>> \/ ~IsSpace(line[Len(line)])
    THEN line
    ELSE rstrip(SubSeq(line, 1, Len(line) - 1))

\* str.strip()
strip(line) == rstrip(lstrip(line))

RECURSIVE SplitAcc(_, _, _)
SplitAcc(line, word, parts) ==
    LET flushed == IF word = "" THEN parts ELSE Append(parts, word)
    IN  IF line = <<>> THEN flushed
        ELSE IF IsSpace(Head(line)) THEN SplitAcc(Tail(line), "", flushed)
        ELSE SplitAcc(Tail(line), word \o Head(line), parts)

\* str.split(): the maximal runs of non-whitespace characters
split(line) == SplitAcc(line, "", <<>>)

\* datetime.strptime(s, "%Y/%m/%d %H:%M:%S.%f") on the strings the model
\* uses (naive local time, UTC offset 0); any other string is a ValueError.
\* %f takes one to six digits, so ".5" is 500000 microseconds.
StrptimeTable ==
    ("1970/01/01 00:00:00.000000" :> [sec |-> 0, micro |-> 0]) @@
    ("1970/01/01 00:00:00.5" :> [sec |-> 0, micro |-> 500000]) @@
    ("1970/01/01 00:00:01.000000" :> [sec |-> 1, micro |-> 0]) @@
    ("1970/01/01 00:00:01.250000" :> [sec |-> 1, micro |-> 250000])

strptime(s) ==
    IF s \in DOMAIN StrptimeTable THEN Return(StrptimeTable[s])
    ELSE Raise("ValueError")

\* float(s) on the strings the model uses; any other string is a ValueError.
FloatTable ==
    ("40" :> 40) @@ ("41" :> 41) @@ ("-74" :> -74) @@ ("-73" :> -73)

float(s) ==
    IF s \in DOMAIN FloatTable THEN Return(FloatTable[s])
    ELSE Raise("ValueError")

----------------------------------------------------------------------------
(* Position Track Parser: parse_pos_file *)

MarkerPrefix == <<"%", " ", " ", "GPST">>

CommentPrefix == <<"%">>

\* next((i + 1 for i, line in enumerate(lines) if line.startswith('%  GPST')),
\*      None), as a 1-based position: the position after the first marker
\* line, or 0 for None.
data_start_index(lines) ==
    LET hits == {i \in 1..Len(lines) : startswith(lines[i], MarkerPrefix)}
    IN  IF hits = {} THEN 0
        ELSE (CHOOSE i \in hits : \A j \in hits : i <= j) + 1

\* Mutant: only whitespace-only lines are skipped, comment lines are not.
is_skipped_blank_only(line) == strip(line) = <<>>

\* the loop's filter: if line.startswith('%') or not line.strip(): continue
is_skipped(line) == startswith(line, CommentPrefix) \/ strip(line) = <<>>

\* One data line to a (timestamp, latitude, longitude) tuple, lines 36-40.
parse_data_line(line) ==
    LET parts == split(line)
    IN  IF Len(parts) < 2 THEN Raise("IndexError")
        ELSE LET dt == strptime(parts[1] \o " " \o parts[2])
             IN  IF dt.kind = "raise" THEN dt
                 ELSE IF Len(parts) < 3 THEN Raise("IndexError")
                 ELSE LET latitude == float(parts[3])
                      IN  IF latitude.kind = "raise" THEN latitude
                          ELSE IF Len(parts) < 4 THEN Raise("IndexError")
                          ELSE LET longitude == float(parts[4])
                               IN  IF longitude.kind = "raise" THEN longitude
                                   ELSE Return(<<date_str_to_timestamp(dt.v),
                                                 latitude.v, longitude.v>>)

\* for line in lines[data_start_index:], from position k with pos_data so far
RECURSIVE parse_data_section(_, _, _)
parse_data_section(lines, k, pos_data) ==
    IF k > Len(lines) THEN Return(PyList(pos_data))
    ELSE IF is_skipped(lines[k]) THEN parse_data_section(lines, k + 1, pos_data)
    ELSE LET sample == parse_data_line(lines[k])
         IN  IF sample.kind = "raise" THEN sample
             ELSE parse_data_section(lines, k + 1, Append(pos_data, sample.v))

\* file: [readable |-> BOOLEAN, lines |-> the result of readlines()]
parse_pos_file(file) ==
    IF ~file.readable THEN Return(None)
    ELSE LET start == data_start_index(file.lines)
         IN  IF start = 0 THEN Return(PyList(<<>>))
             ELSE parse_data_section(file.lines, start, <<>>)

----------------------------------------------------------------------------
(* Frame Manifest Parser: parse_json_file *)

\* file: [status |-> "ok" | "ioerror" | "badjson", data |-> the document]
\* IOError and JSONDecodeError are caught and None is returned.
parse_json_file(file) ==
    IF file.status = "ok" THEN Return(file.data) ELSE Return(None)

----------------------------------------------------------------------------
(* Timestamp Associator *)

\* Mutant: the key without abs(), the signed difference.
time_distance_signed(x, target_timestamp) == x[1] - target_timestamp

\* key=lambda x: abs(x[0] - target_timestamp)
time_distance(x, target_timestamp) == Abs(x[1] - target_timestamp)

\* Mutant: a later item replaces the best one on an equal key (last minimum).
RECURSIVE min_by_distance_last(_, _, _, _)
min_by_distance_last(items, k, best, target_timestamp) ==
    IF k > Len(items) THEN best
    ELSE min_by_distance_last(
             items, k + 1,
             IF Abs(items[k][1] - target_timestamp)
                    <= Abs(best[1] - target_timestamp)
             THEN items[k] ELSE best,
             target_timestamp)

\* min(iterable, key=...): scan in order, replace the best item only by one
\* whose key is strictly smaller, so the first minimal item is kept.
RECURSIVE min_by_distance(_, _, _, _)
min_by_distance(items, k, best, target_timestamp) ==
    IF k > Len(items) THEN best
    ELSE min_by_distance(
             items, k + 1,
             IF time_distance(items[k], target_timestamp)
                    < time_distance(best, target_timestamp)
             THEN items[k] ELSE best,
             target_timestamp)

\* Mutant: an empty track yields a default coordinate pair.
find_closest_timestamp_default(pos_data, target_timestamp) ==
    IF pos_data.tag = "None" THEN Raise("TypeError")
    ELSE IF pos_data.items = <<>> THEN Return(<<0, 0>>)
    ELSE LET closest == min_by_distance(pos_data.items, 2, pos_data.items[1],
                                        target_timestamp)
         IN  Return(<<closest[2], closest[3]>>)

find_closest_timestamp(pos_data, target_timestamp) ==
    IF pos_data.tag = "None" THEN Raise("TypeError")
    ELSE IF pos_data.items = <<>> THEN Raise("ValueError")
    ELSE LET closest == min_by_distance(pos_data.items, 2, pos_data.items[1],
                                        target_timestamp)
         IN  Return(<<closest[2], closest[3]>>)

\* One pass of the loop body, lines 65-73; a frame is <<index, timestamp>>.
associate_frame(frame, pos_data) ==
    LET found == find_closest_timestamp(pos_data, frame[2])
    IN  IF found.kind = "raise" THEN found
        ELSE Return([index |-> frame[1], timestamp |-> frame[2],
                     latitude |-> found.v[1], longitude |-> found.v[2]])

RECURSIVE associate_loop(_, _, _, _)
associate_loop(frames, k, pos_data, associations) ==
    IF k > Len(frames) THEN Return(associations)
    ELSE LET a == associate_frame(frames[k], pos_data)
         IN  IF a.kind = "raise" THEN a
             ELSE associate_loop(frames, k + 1, pos_data,
                                 Append(associations, a.v))

associate_timestamps_with_gps(json_data, pos_data) ==
    IF json_data.tag = "None" THEN Raise("TypeError")
    ELSE IF "timestamps" \notin DOMAIN json_data.d THEN Raise("KeyError")
    ELSE associate_loop(json_data.d["timestamps"], 1, pos_data, <<>>)

----------------------------------------------------------------------------
(* Centroid Calculator *)

RECURSIVE sum(_)
sum(xs) == IF xs = <<>> THEN 0 ELSE Head(xs) + sum(Tail(xs))

\* a mean sum / len as the exact fraction <<sum, len>>
calculate_centroid(locations) ==
    IF locations = <<>> THEN Raise("ValueError")
    ELSE IF ~ \A i \in 1..Len(locations) :
                 {"latitude", "longitude"} \subseteq DOMAIN locations[i]
         THEN Raise("ValueError")
    ELSE LET latitudes == [i \in 1..Len(locations) |-> locations[i].latitude]
             longitudes == [i \in 1..Len(locations) |-> locations[i].longitude]
         IN  Return(<<  <<sum(latitudes), Len(latitudes)>>,
                        <<sum(longitudes), Len(longitudes)>>  >>)

----------------------------------------------------------------------------
(* GeoJSON Assembler *)

\* dict.get(key, default)
get(d, key, default) == IF key \in DOMAIN d THEN d[key] ELSE default

\* Mutant: coordinates in [latitude, longitude] order.
feature_latlon(assoc) ==
    [type |-> "Feature",
     geometry |-> [type |-> "Point",
                   coordinates |-> <<assoc.latitude, assoc.longitude>>],
     properties |-> [index |-> assoc.index, timestamp |-> assoc.timestamp]]

feature(assoc) ==
    [type |-> "Feature",
     geometry |-> [type |-> "Point",
                   coordinates |-> <<assoc.longitude, assoc.latitude>>],
     properties |-> [index |-> assoc.index, timestamp |-> assoc.timestamp]]

generate_geojson_output(json_data, associations, centroid) ==
    [type |-> "FeatureCollection",
     filename |-> get(json_data.d, "filename", ""),
     device_alias |-> get(json_data.d, "device_alias", ""),
     total |-> get(json_data.d, "total", 0),
     beginning |-> get(json_data.d, "beginning", ""),
     end |-> get(json_data.d, "end", ""),
     centroid |-> [lat |-> centroid[1], lon |-> centroid[2]],
     features |-> [i \in 1..Len(associations) |-> feature(associations[i])]]

----------------------------------------------------------------------------
(* State *)

VARIABLES
    pc,            \* position of the running call
    dt,            \* date_str_to_timestamp: the datetime argument
    timestamp,     \* date_str_to_timestamp: the value returned
    pos_text,      \* parse_pos_file: the file read
    pos_parsed,    \* parse_pos_file: how the call ended
    target,        \* find_closest_timestamp: target_timestamp
    closest,       \* find_closest_timestamp: how the call ended
    files,         \* process_files: os.listdir(folder)
    json_files,    \* process_files: [(index, path)]
    pos_file,      \* process_files: path of the position log, or None
    pos_data,      \* the position track
    idx,           \* process_files: position of the loop in json_files
    json_data,     \* the frame manifest
    associations,  \* result of associate_timestamps_with_gps
    centroid,      \* result of calculate_centroid
    geojson,       \* result of generate_geojson_output
    outputs,       \* documents written, in order: [path, doc]
    calls,         \* calls made by process_files, in order
    printed,       \* messages printed, in order
    exc            \* the exception that ended the call, if any

vars == <<pc, dt, timestamp, pos_text, pos_parsed, target, closest, files,
          json_files, pos_file, pos_data, idx, json_data, associations,
          centroid, geojson, outputs, calls, printed, exc>>

\* a local that is not bound yet
Unset == [tag |-> "unset"]

time_vars == <<dt, timestamp>>

pos_vars == <<pos_text, pos_parsed>>

closest_vars == <<target, closest>>

pipeline_vars == <<pos_data, json_data, associations, centroid, geojson, exc>>

batch_vars == <<files, json_files, pos_file, idx, outputs, calls, printed>>

TimeIdle == dt = Unset /\ timestamp = Unset

PosIdle == pos_text = Unset /\ pos_parsed = Unset

ClosestIdle == target = Unset /\ closest = Unset

PipelineIdle ==
    /\ pos_data = Unset /\ json_data = Unset /\ associations = Unset
    /\ centroid = Unset /\ geojson = Unset /\ exc = Unset

BatchIdle ==
    /\ files = Unset /\ json_files = Unset /\ pos_file = Unset /\ idx = 0
    /\ outputs = <<>> /\ calls = <<>> /\ printed = <<>>

\* sequences over S of length at most n
SeqUpTo(S, n) == UNION {[1..k -> S] : k \in 0..n}

----------------------------------------------------------------------------
(* SpecTime: date_str_to_timestamp applied to a datetime *)

MaxSmallMicro == 24

DtSeconds == {0, 1}

DtMicros == (0..MaxSmallMicro) \cup {217313, 250000, 499999, 500000}

InitTime ==
    /\ pc = "time_ready"
    /\ dt \in [sec : DtSeconds, micro : DtMicros]
    /\ timestamp = Unset
    /\ PosIdle /\ ClosestIdle /\ PipelineIdle /\ BatchIdle

Normalize ==
    /\ pc = "time_ready"
    /\ timestamp' = date_str_to_timestamp(dt)
    /\ pc' = "time_done"
    /\ UNCHANGED <<dt, pos_vars, closest_vars, pipeline_vars, batch_vars>>

NextTime == Normalize

SpecTime == InitTime /\ [][NextTime]_vars

----------------------------------------------------------------------------
(* SpecPos: parse_pos_file applied to a position log *)

MaxLines == 3

LineMarker == <<"%", " ", " ", "GPST", " ", "latitude(deg)", "\n">>

LineComment == <<"%", " ", "program", "\n">>

LineOneSpace == <<"%", " ", "GPST", "\n">>

LineBlank == <<"\n">>

LineSpaces == <<" ", " ", "\n">>

LineDataA ==
    <<"1970/01/01", " ", "00:00:00.000000", " ", " ", "40", " ", "-74", "\n">>

LineDataB ==
    <<"1970/01/01", " ", "00:00:01.250000", " ", "41", " ", "-73", " ", "5",
      "\n">>

LineShort == <<"1970/01/01", "\n">>

PosLines ==
    {LineMarker, LineComment, LineOneSpace, LineBlank, LineSpaces, LineDataA,
     LineDataB, LineShort}

InitPos ==
    /\ pc = "pos_ready"
    /\ \/ pos_text \in [readable : {TRUE}, lines : SeqUpTo(PosLines, MaxLines)]
       \/ pos_text = [readable |-> FALSE, lines |-> <<>>]
    /\ pos_parsed = Unset
    /\ TimeIdle /\ ClosestIdle /\ PipelineIdle /\ BatchIdle

ParsePos ==
    /\ pc = "pos_ready"
    /\ pos_parsed' = parse_pos_file(pos_text)
    /\ pc' = "pos_done"
    /\ UNCHANGED <<pos_text, time_vars, closest_vars, pipeline_vars, batch_vars>>

NextPos == ParsePos

SpecPos == InitPos /\ [][NextPos]_vars

----------------------------------------------------------------------------
(* SpecAssoc: the pipeline of one manifest against one position track *)

MaxTime == 2

MaxTrack == 2

MaxFrames == 2

Times == 0..MaxTime

Latitudes == {40, 41}

Longitudes == {-74}

Samples == Times \X Latitudes \X Longitudes

\* a frame is <<index, timestamp>>; the index differs from every position in
\* the manifest and from every timestamp
Frames == {<<10 + t, t>> : t \in Times}

InitAssoc ==
    /\ pc = "pair"
    /\ pos_data \in {PyList(t) : t \in SeqUpTo(Samples, MaxTrack)}
    /\ json_data \in {PyDict([timestamps |-> f]) : f \in SeqUpTo(Frames, MaxFrames)}
    /\ associations = Unset /\ centroid = Unset /\ geojson = Unset
    /\ exc = Unset
    /\ TimeIdle /\ PosIdle /\ ClosestIdle /\ BatchIdle

FindClosest ==
    /\ pc = "pair"
    /\ \E t \in Times :
          /\ target' = t
          /\ closest' = find_closest_timestamp(pos_data, t)
    /\ pc' = "found"
    /\ UNCHANGED <<time_vars, pos_vars, pipeline_vars, batch_vars>>

AssociatePair ==
    /\ pc = "pair"
    /\ LET r == associate_timestamps_with_gps(json_data, pos_data)
       IN  IF r.kind = "raise"
           THEN pc' = "pair_raised" /\ exc' = r.exc /\ UNCHANGED associations
           ELSE pc' = "associated" /\ associations' = r.v /\ UNCHANGED exc
    /\ UNCHANGED <<pos_data, json_data, centroid, geojson, time_vars, pos_vars,
                   closest_vars, batch_vars>>

CentroidPair ==
    /\ pc = "associated"
    /\ LET r == calculate_centroid(associations)
       IN  IF r.kind = "raise"
           THEN pc' = "pair_raised" /\ exc' = r.exc /\ UNCHANGED centroid
           ELSE pc' = "averaged" /\ centroid' = r.v /\ UNCHANGED exc
    /\ UNCHANGED <<pos_data, json_data, associations, geojson, time_vars,
                   pos_vars, closest_vars, batch_vars>>

GeneratePair ==
    /\ pc = "averaged"
    /\ geojson' = generate_geojson_output(json_data, associations, centroid)
    /\ pc' = "assembled"
    /\ UNCHANGED <<pos_data, json_data, associations, centroid, exc, time_vars,
                   pos_vars, closest_vars, batch_vars>>

NextAssoc == FindClosest \/ AssociatePair \/ CentroidPair \/ GeneratePair

SpecAssoc == InitAssoc /\ [][NextAssoc]_vars

----------------------------------------------------------------------------
(* Spec: process_files applied to a folder *)

MaxFiles == 3

PyStr(x) == [tag |-> "str", s |-> x]

\* a directory entry; its name is name \o ext
File(name, ext) == [name |-> name, ext |-> ext]

\* str.endswith on a directory entry
endswith(file, suffix) == file.ext = suffix

\* os.path.join(folder, file)
join(folder, file) == folder \o "/" \o file.name \o file.ext

Folder == "folder"

\* the default of the parameter output_file
OutputFile == "geojson"

FileNames ==
    {File("a", ".json"), File("b", ".json"), File("bad", ".json"),
     File("empty", ".json"), File("nokey", ".json"), File("track", ".pos"),
     File("nomarker", ".pos"), File("locked", ".pos"), File("broken", ".pos"),
     File("notes", ".txt")}

ManifestA ==
    PyDict([timestamps |-> << <<0, 0>>, <<1, 1000000000>> >>,
            filename |-> "a.svo", device_alias |-> "CAM134", total |-> 2,
            beginning |-> "0", end |-> "1000000000"])

ManifestB == PyDict([timestamps |-> << <<0, 1500000000>> >>])

ManifestEmpty == PyDict([timestamps |-> <<>>, total |-> 0])

ManifestNoKey == PyDict([filename |-> "nokey.svo"])

\* what open() finds at each path
Disk ==
    ("folder/a.json" :> [status |-> "ok", data |-> ManifestA]) @@
    ("folder/b.json" :> [status |-> "ok", data |-> ManifestB]) @@
    ("folder/bad.json" :> [status |-> "badjson", data |-> None]) @@
    ("folder/empty.json" :> [status |-> "ok", data |-> ManifestEmpty]) @@
    ("folder/nokey.json" :> [status |-> "ok", data |-> ManifestNoKey]) @@
    ("folder/track.pos" :>
        [readable |-> TRUE,
         lines |-> <<LineComment, LineMarker, LineDataA, LineDataB>>]) @@
    ("folder/nomarker.pos" :>
        [readable |-> TRUE, lines |-> <<LineComment, LineDataA>>]) @@
    ("folder/locked.pos" :> [readable |-> FALSE, lines |-> <<>>]) @@
    ("folder/broken.pos" :>
        [readable |-> TRUE, lines |-> <<LineMarker, LineDataA, LineShort>>])

\* os.listdir: distinct names, in any order
Listings ==
    {l \in SeqUpTo(FileNames, MaxFiles) :
        \A i, j \in 1..Len(l) : l[i] = l[j] => i = j}

\* Mutant: the first manifest of the listing is left out.
json_files_skip_first(folder, listing) ==
    LET indexed == [k \in 1..Len(listing) |-> <<k - 1, listing[k]>>]
        kept == SelectSeq(indexed, LAMBDA e : endswith(e[2], ".json"))
    IN  [k \in 1..(Len(kept) - 1) |->
            <<kept[k + 1][1], join(folder, kept[k + 1][2])>>]

\* [(index, os.path.join(folder, file)) for index, file in enumerate(files)
\*  if file.endswith('.json')]
json_files_of(folder, listing) ==
    LET indexed == [k \in 1..Len(listing) |-> <<k - 1, listing[k]>>]
        kept == SelectSeq(indexed, LAMBDA e : endswith(e[2], ".json"))
    IN  [k \in 1..Len(kept) |-> <<kept[k][1], join(folder, kept[k][2])>>]

\* next((os.path.join(folder, file) for file in files
\*       if file.endswith('.pos')), None)
pos_file_of(folder, listing) ==
    LET hits == {k \in 1..Len(listing) : endswith(listing[k], ".pos")}
    IN  IF hits = {} THEN None
        ELSE PyStr(join(folder,
                        listing[CHOOSE k \in hits : \A j \in hits : k <= j]))

\* f"{output_file}_{index}.json"
output_path(output_file, index) ==
    output_file \o "_" \o ToString(index) \o ".json"

Init ==
    /\ pc = "start"
    /\ files \in Listings
    /\ json_files = Unset /\ pos_file = Unset /\ idx = 0
    /\ outputs = <<>> /\ calls = <<>> /\ printed = <<>>
    /\ TimeIdle /\ PosIdle /\ ClosestIdle /\ PipelineIdle

\* Mutant: a missing position log is not checked for; the loop runs with
\* no track.
ListFilesUnchecked ==
    /\ pc = "start"
    /\ json_files' = json_files_of(Folder, files)
    /\ pos_file' = pos_file_of(Folder, files)
    /\ IF pos_file_of(Folder, files) = None
       THEN pc' = "loop" /\ pos_data' = None /\ idx' = 1
       ELSE pc' = "parse_pos" /\ UNCHANGED <<pos_data, idx>>
    /\ UNCHANGED <<files, outputs, calls, printed, json_data, associations,
                   centroid, geojson, exc, time_vars, pos_vars, closest_vars>>

\* lines 147-152
ListFiles ==
    /\ pc = "start"
    /\ json_files' = json_files_of(Folder, files)
    /\ pos_file' = pos_file_of(Folder, files)
    /\ IF pos_file_of(Folder, files) = None
       THEN pc' = "raised" /\ exc' = "FileNotFoundError"
       ELSE pc' = "parse_pos" /\ UNCHANGED exc
    /\ UNCHANGED <<files, idx, outputs, calls, printed, pos_data, json_data,
                   associations, centroid, geojson, time_vars, pos_vars,
                   closest_vars>>

\* line 154
ParsePosFile ==
    /\ pc = "parse_pos"
    /\ calls' = Append(calls, [fn |-> "parse_pos_file", file |-> pos_file.s])
    /\ LET file == Disk[pos_file.s]
           r == parse_pos_file(file)
       IN  /\ IF r.kind = "raise"
              THEN pc' = "raised" /\ exc' = r.exc /\ UNCHANGED <<pos_data, idx>>
              ELSE pc' = "loop" /\ pos_data' = r.v /\ idx' = 1 /\ UNCHANGED exc
           /\ printed' =
                IF ~file.readable
                THEN Append(printed, <<"Error reading .pos file", pos_file.s>>)
                ELSE IF data_start_index(file.lines) = 0
                THEN Append(printed, <<"No data start marker found in file",
                                       pos_file.s>>)
                ELSE printed
    /\ UNCHANGED <<files, json_files, pos_file, outputs, json_data,
                   associations, centroid, geojson, time_vars, pos_vars,
                   closest_vars>>

\* line 157
ParseJsonFile ==
    /\ pc = "loop"
    /\ idx <= Len(json_files)
    /\ LET json_file == json_files[idx][2]
           r == parse_json_file(Disk[json_file])
       IN  /\ calls' = Append(calls, [fn |-> "parse_json_file",
                                      file |-> json_file])
           /\ json_data' = r.v
           /\ printed' = IF r.v = None
                         THEN Append(printed, <<"Error reading JSON file",
                                                json_file>>)
                         ELSE printed
    /\ pc' = "associate"
    /\ UNCHANGED <<files, json_files, pos_file, idx, outputs, pos_data,
                   associations, centroid, geojson, exc, time_vars, pos_vars,
                   closest_vars>>

\* line 158
Associate ==
    /\ pc = "associate"
    /\ calls' = Append(calls, [fn |-> "associate_timestamps_with_gps",
                               file |-> json_files[idx][2],
                               track |-> pos_data])
    /\ LET r == associate_timestamps_with_gps(json_data, pos_data)
       IN  IF r.kind = "raise"
           THEN pc' = "raised" /\ exc' = r.exc /\ UNCHANGED associations
           ELSE pc' = "centroid" /\ associations' = r.v /\ UNCHANGED exc
    /\ UNCHANGED <<files, json_files, pos_file, idx, outputs, printed, pos_data,
                   json_data, centroid, geojson, time_vars, pos_vars,
                   closest_vars>>

\* line 159
Centroid ==
    /\ pc = "centroid"
    /\ calls' = Append(calls, [fn |-> "calculate_centroid",
                               file |-> json_files[idx][2]])
    /\ LET r == calculate_centroid(associations)
       IN  IF r.kind = "raise"
           THEN pc' = "raised" /\ exc' = r.exc /\ UNCHANGED centroid
           ELSE pc' = "generate" /\ centroid' = r.v /\ UNCHANGED exc
    /\ UNCHANGED <<files, json_files, pos_file, idx, outputs, printed, pos_data,
                   json_data, associations, geojson, time_vars, pos_vars,
                   closest_vars>>

\* line 160
Generate ==
    /\ pc = "generate"
    /\ calls' = Append(calls, [fn |-> "generate_geojson_output",
                               file |-> json_files[idx][2]])
    /\ geojson' = generate_geojson_output(json_data, associations, centroid)
    /\ pc' = "write"
    /\ UNCHANGED <<files, json_files, pos_file, idx, outputs, printed, pos_data,
                   json_data, associations, centroid, exc, time_vars, pos_vars,
                   closest_vars>>

\* line 161 and write_geojson_file: an IOError is caught and printed
Write ==
    /\ pc = "write"
    /\ LET filepath == output_path(OutputFile, json_files[idx][1])
       IN  /\ calls' = Append(calls, [fn |-> "write_geojson_file",
                                      file |-> json_files[idx][2],
                                      filepath |-> filepath])
           /\ \E ok \in BOOLEAN :
                IF ok
                THEN /\ outputs' = Append(outputs, [path |-> filepath,
                                                    doc |-> geojson])
                     /\ UNCHANGED printed
                ELSE /\ printed' = Append(printed,
                         <<"An error occurred while writing the file", filepath>>)
                     /\ UNCHANGED outputs
    /\ idx' = idx + 1
    /\ pc' = "loop"
    /\ UNCHANGED <<files, json_files, pos_file, pos_data, json_data,
                   associations, centroid, geojson, exc, time_vars, pos_vars,
                   closest_vars>>

\* the for loop is exhausted: process_files returns
Finish ==
    /\ pc = "loop"
    /\ idx > Len(json_files)
    /\ pc' = "done"
    /\ UNCHANGED <<batch_vars, pipeline_vars, time_vars, pos_vars, closest_vars>>

Next ==
    \/ ListFiles \/ ParsePosFile \/ ParseJsonFile \/ Associate \/ Centroid
    \/ Generate \/ Write \/ Finish

Spec == Init /\ [][Next]_vars

----------------------------------------------------------------------------
(* Properties of process_files (Spec) *)

IsManifest(file) == file.ext = ".json"

IsPosLog(file) == file.ext = ".pos"

PathOf(file) == "folder/" \o file.name \o file.ext

\* the manifests of the folder, in processing order
ManifestPaths ==
    LET kept == SelectSeq(files, IsManifest)
    IN  [k \in 1..Len(kept) |-> PathOf(kept[k])]

PosLogCount == Cardinality({k \in 1..Len(files) : IsPosLog(files[k])})

\* a manifest that parses and has at least one frame
Healthy(path) ==
    /\ Disk[path].status = "ok"
    /\ "timestamps" \in DOMAIN Disk[path].data.d
    /\ Disk[path].data.d["timestamps"] /= <<>>

ValidTrack == pos_data /= Unset /\ pos_data.tag = "list" /\ pos_data.items /= <<>>

Terminated == pc \in {"done", "raised"}

WriteCalls == SelectSeq(calls, LAMBDA c : c.fn = "write_geojson_file")

\* C1: once process_files has ended on a folder whose position track is
\* valid, the write of the output document was attempted for every manifest
\* that is itself processable, whatever happened to the other manifests.
C1_SiblingsStillProcessed ==
    (Terminated /\ ValidTrack) =>
        \A k \in 1..Len(ManifestPaths) :
            Healthy(ManifestPaths[k]) =>
                \E w \in 1..Len(WriteCalls) :
                    WriteCalls[w].file = ManifestPaths[k]

\* C6: with no .pos entry in the folder, process_files ends in
\* FileNotFoundError straight after the listing: nothing was parsed, no call
\* of the pipeline was made and no document was written.
C6_NoPosLogAbortsBatch ==
    (pc /= "start" /\ PosLogCount = 0) =>
        /\ pc = "raised"
        /\ exc = "FileNotFoundError"
        /\ calls = <<>>
        /\ outputs = <<>>
        /\ pos_data = Unset
        /\ json_data = Unset

C6_Witness ==
    /\ pc = "raised"
    /\ PosLogCount = 0
    /\ Len(ManifestPaths) >= 2

RECURSIVE PipelineCalls(_)
PipelineCalls(paths) ==
    IF paths = <<>> THEN <<>>
    ELSE << <<"parse_json_file", Head(paths)>>,
            <<"associate_timestamps_with_gps", Head(paths)>>,
            <<"calculate_centroid", Head(paths)>>,
            <<"generate_geojson_output", Head(paths)>>,
            <<"write_geojson_file", Head(paths)>> >>
         \o PipelineCalls(Tail(paths))

CallTrace == [k \in 1..Len(calls) |-> <<calls[k].fn, calls[k].file>>]

FirstPosLog == CHOOSE k \in 1..Len(files) :
                   IsPosLog(files[k]) /\ \A j \in 1..(k - 1) : ~IsPosLog(files[j])

\* C7: when process_files returns from a folder with one position log and
\* nothing was reported, the calls made are: parse_pos_file once, then for
\* each manifest in listing order parse, associate, centroid, assemble,
\* write; every associate call got the track parse_pos_file returned; and
\* there is one document written per manifest.
C7_OnePassPerManifest ==
    (pc = "done" /\ printed = <<>> /\ PosLogCount = 1) =>
        /\ CallTrace =
              << <<"parse_pos_file", PathOf(files[FirstPosLog])>> >>
              \o PipelineCalls(ManifestPaths)
        /\ \A k \in 1..Len(calls) :
              calls[k].fn = "associate_timestamps_with_gps" =>
                  /\ calls[k].track = pos_data
                  /\ calls[k].track =
                        parse_pos_file(Disk[PathOf(files[FirstPosLog])]).v
        /\ Len(outputs) = Len(ManifestPaths)

C7_Witness ==
    /\ pc = "done"
    /\ printed = <<>>
    /\ PosLogCount = 1
    /\ Len(ManifestPaths) = 2
    /\ Len(outputs) = 2

\* number of manifests listed before position k of the listing
ManifestsBefore(k) == Cardinality({j \in 1..(k - 1) : IsManifest(files[j])})

ListingPosition(path) == CHOOSE k \in 1..Len(files) : PathOf(files[k]) = path

\* C8: every output document goes to <prefix>_<i>.json with i the number of
\* manifests processed before its manifest (0 for the first), wherever the
\* other files fall in the listing, and no two writes share a path.
C8_OutputNamedByManifestOrder ==
    /\ \A w \in 1..Len(WriteCalls) :
          WriteCalls[w].filepath =
              "geojson_"
              \o ToString(ManifestsBefore(ListingPosition(WriteCalls[w].file)))
              \o ".json"
    /\ \A v, w \in 1..Len(WriteCalls) :
          WriteCalls[v].filepath = WriteCalls[w].filepath => v = w

----------------------------------------------------------------------------
(* Properties of date_str_to_timestamp (SpecTime) *)

\* C4: the value returned for a datetime with s whole seconds since the
\* epoch and u microseconds is s * 1,000,000,000 + u * 1000, from which s and
\* u are recovered by division.
C4_NanosCountMicrosOnce ==
    pc = "time_done" =>
        /\ timestamp = dt.sec * 1000000000 + dt.micro * 1000
        /\ timestamp \div 1000000000 = dt.sec
        /\ (timestamp % 1000000000) \div 1000 = dt.micro

----------------------------------------------------------------------------
(* Properties of the associator and the assembler (SpecAssoc) *)

Track == pos_data.items

Distance(i) == Abs(Track[i][1] - target)

Coordinates(i) == <<Track[i][2], Track[i][3]>>

\* C2: on a non-empty track, sorted or not, find_closest_timestamp returns
\* the (latitude, longitude) of a sample of the track whose time distance to
\* the target is at most that of every sample of the track.
C2_ClosestIsGlobalMinimum ==
    (pc = "found" /\ Track /= <<>>) =>
        /\ closest.kind = "return"
        /\ \E i \in 1..Len(Track) :
              /\ closest.v = Coordinates(i)
              /\ \A j \in 1..Len(Track) : Distance(i) <= Distance(j)

C2_Witness ==
    /\ pc = "found"
    /\ Len(Track) = 2
    /\ Track[1][1] > Track[2][1]
    /\ Distance(2) < Distance(1)
    /\ Coordinates(1) /= Coordinates(2)
    /\ closest = Return(Coordinates(2))

\* C3: among the samples at the minimal time distance from the target,
\* find_closest_timestamp returns the coordinates of the one listed first.
C3_FirstMinimalSampleWins ==
    (pc = "found" /\ Track /= <<>>) =>
        LET first == CHOOSE i \in 1..Len(Track) :
                         /\ \A j \in 1..Len(Track) : Distance(i) <= Distance(j)
                         /\ \A j \in 1..(i - 1) : Distance(j) > Distance(i)
        IN  closest = Return(Coordinates(first))

C3_Witness ==
    /\ pc = "found"
    /\ Len(Track) = 2
    /\ target = 1
    /\ Track[1][1] = 0
    /\ Track[2][1] = 2
    /\ Coordinates(1) /= Coordinates(2)
    /\ closest = Return(Coordinates(1))

FrameList == json_data.d["timestamps"]

\* C5: over an empty track find_closest_timestamp raises (Python's
\* ValueError) and returns no coordinate pair; associating a manifest with at
\* least one frame against an empty track raises too and leaves no
\* association list, centroid or document.
C5_EmptyTrackRaises ==
    /\ (pc = "found" /\ Track = <<>>) => closest = Raise("ValueError")
    /\ (pc \in {"associated", "averaged", "assembled", "pair_raised"}
           /\ Track = <<>> /\ FrameList /= <<>>) =>
          /\ pc = "pair_raised"
          /\ exc = "ValueError"
          /\ associations = Unset
          /\ geojson = Unset

C5_Witness ==
    /\ pc = "pair_raised"
    /\ Track = <<>>
    /\ Len(FrameList) = 2
    /\ exc = "ValueError"

\* C9: the assembled document has one feature per frame entry, in manifest
\* order; feature i carries the index and timestamp of frame i and the
\* [longitude, latitude] of a sample nearest in time to it; a non-empty
\* track never makes the pipeline of a non-empty manifest fail, however many
\* frames there are.
C9_OneFeaturePerFrame ==
    /\ pc = "assembled" =>
          /\ Len(geojson.features) = Len(FrameList)
          /\ \A i \in 1..Len(FrameList) :
                LET f == geojson.features[i]
                IN  /\ f.type = "Feature"
                    /\ f.properties = [index |-> FrameList[i][1],
                                        timestamp |-> FrameList[i][2]]
                    /\ f.geometry.type = "Point"
                    /\ \E k \in 1..Len(Track) :
                          /\ f.geometry.coordinates = <<Track[k][3], Track[k][2]>>
                          /\ \A j \in 1..Len(Track) :
                                Abs(Track[k][1] - FrameList[i][2])
                                    <= Abs(Track[j][1] - FrameList[i][2])
    /\ pc = "pair_raised" => (Track = <<>> \/ FrameList = <<>>)

C9_Witness ==
    /\ pc = "assembled"
    /\ Len(Track) = 1
    /\ Len(FrameList) = 2
    /\ FrameList[1] /= FrameList[2]
    /\ Len(geojson.features) = 2

----------------------------------------------------------------------------
(* Properties of parse_pos_file (SpecPos) *)

BeginsWithMarker(line) == line = LineMarker

BeginsWithPercent(line) == line \in {LineMarker, LineComment, LineOneSpace}

WhitespaceOnly(line) == line \in {LineBlank, LineSpaces}

IsDataLine(line) == line \in {LineDataA, LineDataB}

SampleOf(line) ==
    IF line = LineDataA
    THEN <<date_str_to_timestamp([sec |-> 0, micro |-> 0]), 40, -74>>
    ELSE <<date_str_to_timestamp([sec |-> 1, micro |-> 250000]), 41, -73>>

MarkerPositions ==
    {i \in 1..Len(pos_text.lines) : BeginsWithMarker(pos_text.lines[i])}

FirstMarker == CHOOSE i \in MarkerPositions : \A j \in MarkerPositions : i <= j

KeptAfterMarker(line) == ~BeginsWithPercent(line) /\ ~WhitespaceOnly(line)

\* the lines after the first marker that are neither comments nor blank
KeptLines ==
    SelectSeq(SubSeq(pos_text.lines, FirstMarker + 1, Len(pos_text.lines)),
              KeptAfterMarker)

\* C10: on a readable log with no marker line parse_pos_file returns the
\* empty track; with a marker, and the kept lines well formed, it returns
\* one sample per line after the first marker that neither begins with '%'
\* nor is whitespace-only, in order, and nothing for any other line.
C10_TrackIsDataSection ==
    (pc = "pos_done" /\ pos_text.readable) =>
        IF MarkerPositions = {}
        THEN pos_parsed = Return(PyList(<<>>))
        ELSE (\A k \in 1..Len(KeptLines) : IsDataLine(KeptLines[k])) =>
                 pos_parsed =
                     Return(PyList([k \in 1..Len(KeptLines) |->
                                       SampleOf(KeptLines[k])]))

C10_Witness ==
    /\ pc = "pos_done"
    /\ pos_text.readable
    /\ Len(pos_text.lines) = 3
    /\ IsDataLine(pos_text.lines[1])
    /\ BeginsWithMarker(pos_text.lines[2])
    /\ pos_text.lines[3] = LineDataB
    /\ pos_parsed = Return(PyList(<<SampleOf(LineDataB)>>))

====
